---- MODULE Spec2Model ----
(***************************************************************************)
(* The game engine of NeonNibbler2 (the App component), as a state         *)
(* machine.  One action per handler: the timer callback moveSnake, the     *)
(* commands resetGame / handleExit / handlePause / handleResume /          *)
(* updateDirection, the arrival of a commentary answer, and the clock.     *)
(*                                                                         *)
(* React semantics used by every action: a handler reads the state         *)
(* variables of the render that created it (its closure), every set*()     *)
(* call is queued, and the queue of each state variable is applied in call *)
(* order before the next handler runs; a functional update set*(f) is      *)
(* applied to the value the queue has produced so far, and is run once (the *)
(* double invocation of development builds is not modelled).  An action    *)
(* below is one handler with the render and the effects that follow it.    *)
(***************************************************************************)
EXTENDS Integers, Sequences, FiniteSets, TLC

\* ------------------------------------------------------------- constants
GRID_SIZE == 20
POWERUP_DURATION == 5000
COMBO_TIMEOUT_MS == 4000
POINTS_PER_FOOD == 10
MAX_LIVES == 3
MAX_ATTEMPTS == 20

Cell(cx, cy) == [x |-> cx, y |-> cy]

INITIAL_SNAKE == << Cell(10, 10), Cell(10, 11), Cell(10, 12) >>
INITIAL_DIRECTION == "UP"
INITIAL_FOOD == Cell(5, 5)

Direction == {"UP", "DOWN", "LEFT", "RIGHT"}
PowerUpType == {"GHOST", "SLOW_TIME"}

\* null values of the optional state (ActivePowerUp | null, AiComment | null,
\* PowerUp | null, the absent localStorage entry)
NoActivePowerUp == [type |-> "null", expiresAt |-> 0]
NoComment == [round |-> 0, score |-> 0, reason |-> "null"]
NoPowerUp == [x |-> -1, y |-> -1, type |-> "null"]
NoCell == Cell(-1, -1)
Absent == -1

\* ---------------------------------------------------------------- bounds
\* A run is explored within a budget of events: calls of updateDirection,
\* food eaten, spawn rolls that come up on an empty board, clock steps,
\* pauses, rounds (calls of resetGame) and, where `limited`, ticks while
\* PLAYING.  Where `held`, keys and clock steps come only while a power-up
\* is held.  Init draws the budget from Budgets; a handler whose budget is
\* used up is not explored further.
MaxKeys == 3
MaxTurnTicks == 3
MaxTurnEats == 1
MaxEats == 5
MaxSpawns == 1
MaxClock == 2
MaxPauses == 1
MaxRounds == 2
\* cells of CellPool the random source may return: in the runs that eat,
\* and in the others
MaxCells == 7
MaxFewCells == 3
\* ticks, food eaten and cells of GhostPool in the runs of SpecGhost
MaxGhostTicks == 8
MaxGhostEats == 3
MaxGhostCells == 5
\* ticks in the runs of SpecKeys
MaxKeyTicks == 4

Budgets ==
  { \* turning: a short run with key presses
    [keys |-> MaxKeys, ticks |-> MaxTurnTicks, limited |-> TRUE, held |-> FALSE, eats |-> MaxTurnEats,
     spawns |-> 0, clock |-> 0, pauses |-> 0, rounds |-> 1,
     cells |-> MaxFewCells, pool |-> "turn"],
    \* eating: straight runs that eat
    [keys |-> 0, ticks |-> 0, limited |-> FALSE, held |-> FALSE, eats |-> MaxEats,
     spawns |-> 0, clock |-> MaxClock, pauses |-> 0, rounds |-> 1,
     cells |-> MaxCells, pool |-> "straight"],
    \* pausing: straight runs with a pause
    [keys |-> 0, ticks |-> 0, limited |-> FALSE, held |-> FALSE, eats |-> MaxTurnEats,
     spawns |-> 0, clock |-> MaxClock, pauses |-> MaxPauses, rounds |-> 1,
     cells |-> MaxFewCells, pool |-> "straight"],
    \* power-ups: straight runs with a power-up
    [keys |-> 0, ticks |-> 0, limited |-> FALSE, held |-> FALSE, eats |-> 0,
     spawns |-> MaxSpawns, clock |-> MaxClock, pauses |-> 0, rounds |-> 1,
     cells |-> MaxFewCells, pool |-> "straight"],
    \* rounds: straight runs to game over, and again
    [keys |-> 0, ticks |-> 0, limited |-> FALSE, held |-> FALSE, eats |-> 0,
     spawns |-> 0, clock |-> 0, pauses |-> 0, rounds |-> MaxRounds,
     cells |-> MaxFewCells, pool |-> "straight"] }

\* turning with a power-up and the clock: the budget of SpecTurn
TurnBudgets ==
  { [keys |-> MaxKeys, ticks |-> MaxTurnTicks, limited |-> TRUE, held |-> FALSE, eats |-> MaxTurnEats,
     spawns |-> MaxSpawns, clock |-> MaxClock, pauses |-> 0, rounds |-> 1,
     cells |-> MaxFewCells, pool |-> "turn"] }

\* growing on the way up, then turning with a power-up held: the budget of
\* SpecGhost
GhostBudgets ==
  { [keys |-> MaxKeys, ticks |-> MaxGhostTicks, limited |-> TRUE, held |-> TRUE,
     eats |-> MaxGhostEats, spawns |-> MaxSpawns, clock |-> MaxClock,
     pauses |-> 0, rounds |-> 1, cells |-> MaxGhostCells, pool |-> "ghost"] }

\* turning before, during and after a pause, up to a life lost to the snake:
\* the budget of SpecKeys
KeyBudgets ==
  { [keys |-> MaxKeys, ticks |-> MaxKeyTicks, limited |-> TRUE, held |-> FALSE,
     eats |-> MaxTurnEats, spawns |-> 0, clock |-> 0, pauses |-> MaxPauses,
     rounds |-> 1, cells |-> MaxFewCells, pool |-> "turn"] }

\* milliseconds of one clock step, and the clock at the start
TimeStep == 3000
StartTime == 100000

\* The cells the random source draws from, in the order the budget admits
\* them: up the column of the initial snake for the straight runs, beside
\* its head for the turning ones.
CellPool ==
  << Cell(10, 9), Cell(10, 8), Cell(5, 5), Cell(10, 7), Cell(10, 6),
     Cell(10, 5), Cell(10, 11), Cell(9, 9), Cell(11, 10), Cell(10, 4) >>

TurnPool ==
  << Cell(9, 10), Cell(9, 11), Cell(5, 5), Cell(10, 9), Cell(11, 10) >>

GhostPool ==
  << Cell(10, 9), Cell(10, 8), Cell(10, 7), Cell(10, 6), Cell(5, 5), Cell(9, 9) >>

FirstCells(pool, n) ==
  { pool[i] : i \in 1..(IF n < Len(pool) THEN n ELSE Len(pool)) }

VARIABLES
  snake, food, powerUps, activePowerUp, direction, nextDirection,
  score, highScore, lives, status, gameOverReason, aiComment, loadingAi,
  combo, comboExpiresAt,
  gameLoopRef, savedComboTimeRef,
  now, localStorage, requests,
  round, ev, hist, left

gameVars ==
  << snake, food, powerUps, activePowerUp, direction, nextDirection,
     score, highScore, lives, status, gameOverReason, aiComment, loadingAi,
     combo, comboExpiresAt, gameLoopRef, savedComboTimeRef, localStorage,
     requests >>

vars == << gameVars, now, round, ev, hist, left >>

\* what Math.random() may produce for a cell in this run
RandomCells ==
  FirstCells(CASE left.pool = "turn" -> TurnPool
               [] left.pool = "ghost" -> GhostPool
               [] OTHER -> CellPool,
             left.cells)


\* --------------------------------------------------------------- helpers
Front(s) == SubSeq(s, 1, Len(s) - 1)

RemoveAt(s, i) == SubSeq(s, 1, i - 1) \o SubSeq(s, i + 1, Len(s))

SameCell(a, b) == a.x = b.x /\ a.y = b.y

\* currentSnake.some(s => s.x === x && s.y === y)
OnSnake(c, currentSnake) ==
  \E i \in 1..Len(currentSnake) : SameCell(currentSnake[i], c)

isOccupied(c, currentSnake, currentPowerUps) ==
  LET onSnake == OnSnake(c, currentSnake)
      onPowerUp == \E i \in 1..Len(currentPowerUps) : SameCell(currentPowerUps[i], c)
  IN onSnake \/ onPowerUp

\* generateFood returning the first cell it samples
generateFood_AnyCell(currentSnake, currentPowerUps) == RandomCells

\* The cells the rejection loop of generateFood can end on.
generateFood(currentSnake, currentPowerUps) ==
  { c \in RandomCells : ~isOccupied(c, currentSnake, currentPowerUps) }

\* The loop condition of generatePowerUp for one sampled cell.
Rejected(newLoc, currentSnake, currentFood, currentPowerUps) ==
  isOccupied(newLoc, currentSnake, currentPowerUps) \/ SameCell(newLoc, currentFood)

\* generatePowerUp, given what the random source produced: the loop left
\* after `attempts` samples with newLoc the last one sampled, and the type.
generatePowerUp(currentPowerUps, attempts, newLoc, type) ==
  IF Len(currentPowerUps) > 0 THEN NoPowerUp
  ELSE IF attempts >= MAX_ATTEMPTS THEN NoPowerUp
  ELSE [x |-> newLoc.x, y |-> newLoc.y, type |-> type]

\* The runs of the sampling loop: it stops at the first sample that is not
\* rejected, or at the 20th sample whatever it is.  Of the runs that stop
\* before the 20th sample, those that stop at the first stand for all.
LoopRuns(currentSnake, currentFood, currentPowerUps) ==
  { r \in [attempts : {1, MAX_ATTEMPTS}, newLoc : RandomCells] :
      r.attempts < MAX_ATTEMPTS =>
        ~Rejected(r.newLoc, currentSnake, currentFood, currentPowerUps) }

MoveHead(head, currentDir) ==
  CASE currentDir = "UP" -> Cell(head.x, head.y - 1)
    [] currentDir = "DOWN" -> Cell(head.x, head.y + 1)
    [] currentDir = "LEFT" -> Cell(head.x - 1, head.y)
    [] currentDir = "RIGHT" -> Cell(head.x + 1, head.y)

OutOfBounds(newHead) ==
  newHead.x < 0 \/ newHead.x >= GRID_SIZE \/ newHead.y < 0 \/ newHead.y >= GRID_SIZE

\* the GHOST branch of the wall check without the wrap
Wrap_Keep(newHead) == newHead

\* the wrap of the GHOST branch of the wall check
Wrap(newHead) ==
  LET x1 == IF newHead.x < 0 THEN GRID_SIZE - 1 ELSE newHead.x
      x2 == IF x1 >= GRID_SIZE THEN 0 ELSE x1
      y1 == IF newHead.y < 0 THEN GRID_SIZE - 1 ELSE newHead.y
      y2 == IF y1 >= GRID_SIZE THEN 0 ELSE y1
  IN Cell(x2, y2)

\* activePowerUp?.type === PowerUpType.GHOST
GhostActive(ap) == ap.type = "GHOST"

\* the self check of moveSnake, without its GHOST guard
HitsSelf(newHead, prevSnake) == OnSnake(newHead, prevSnake)

Multiplier(c) == 1 + (c \div 5)

\* isOpposite with no pair of directions opposite
isOpposite_Never(newDir, currentDir) == FALSE

isOpposite(newDir, currentDir) ==
  \/ newDir = "UP" /\ currentDir = "DOWN"
  \/ newDir = "DOWN" /\ currentDir = "UP"
  \/ newDir = "LEFT" /\ currentDir = "RIGHT"
  \/ newDir = "RIGHT" /\ currentDir = "LEFT"


\* ------------------------------------------------- effects after a render
\* the high-score effect without its comparison
HighScoreEffect_Overwrite(newScore, oldHighScore, stored) ==
  [highScore |-> newScore, localStorage |-> newScore]

\* useEffect([score, highScore]): the value of highScore and of the stored
\* entry once the effect has run for the score just rendered.
HighScoreEffect(newScore, oldHighScore, stored) ==
  IF newScore > oldHighScore
    THEN [highScore |-> newScore, localStorage |-> newScore]
    ELSE [highScore |-> oldHighScore, localStorage |-> stored]

\* the game loop effect without its cleanup
GameLoopEffect_NoCleanup(newStatus, live) ==
  IF newStatus = "PLAYING" THEN live + 1 ELSE 0

\* useEffect([status, moveSnake, currentSpeed]): the cleanup clears the
\* interval gameLoopRef holds, then one is created iff the status is PLAYING.
\* gameLoopRef is modelled by the number of live intervals.
GameLoopEffect(newStatus, live) ==
  LET afterCleanup == IF live > 0 THEN live - 1 ELSE 0
  IN IF newStatus = "PLAYING" THEN afterCleanup + 1 ELSE afterCleanup

\* useEffect([]) on mount: highScore read from the stored entry.
MountHighScore(stored) == IF stored = Absent THEN 0 ELSE stored

\* ------------------------------------------------------- what a step was
\* ev describes the handler that ran last and what it went through; it is
\* history kept for stating properties and is read by no handler.
NoEv(op) ==
  [op |-> op, playing |-> FALSE, dir |-> "null", newHead |-> NoCell,
   outside |-> FALSE, wrapped |-> FALSE, lost |-> "null", lastLife |-> FALSE,
   ate |-> FALSE, picked |-> FALSE, roll |-> FALSE, attempts |-> 0,
   newLoc |-> NoCell, key |-> "null", accepted |-> "null",
   rejected |-> FALSE, underSpawn |-> FALSE]

\* the direction opposite to d
Reverse(d) ==
  CASE d = "UP" -> "DOWN" [] d = "DOWN" -> "UP"
    [] d = "LEFT" -> "RIGHT" [] d = "RIGHT" -> "LEFT"

\* hist is history too: the last direction updateDirection accepted since
\* the last tick or start and whether a call was rejected after it, the
\* highest score reached, the entry stored before the first round, the combo
\* and comboExpiresAt - now at the last pause, and the rounds whose
\* commentary request was answered.
NoKeys(h) == [h EXCEPT !.accepted = "null", !.rejected = FALSE]

Spend(what) == [left EXCEPT ![what] = @ - 1]

\* ------------------------------------------------------------------ Init
StoredAtStart == {Absent, 20}

InitWith(budgets) ==
  /\ snake = INITIAL_SNAKE
  /\ food = INITIAL_FOOD
  /\ powerUps = << >>
  /\ activePowerUp = NoActivePowerUp
  /\ direction = INITIAL_DIRECTION
  /\ nextDirection = INITIAL_DIRECTION
  /\ score = 0
  /\ localStorage \in StoredAtStart
  /\ highScore = MountHighScore(localStorage)
  /\ lives = MAX_LIVES
  /\ status = "IDLE"
  /\ gameOverReason = "null"
  /\ aiComment = NoComment
  /\ loadingAi = FALSE
  /\ combo = 0
  /\ comboExpiresAt = 0
  /\ gameLoopRef = 0
  /\ savedComboTimeRef = 0
  /\ now = StartTime
  /\ requests = {}
  /\ round = 0
  /\ ev = NoEv("init")
  /\ hist = [accepted |-> "null", rejected |-> FALSE, maxScore |-> 0,
             stored0 |-> localStorage, pausedCombo |-> 0, remaining |-> 0,
             answered |-> {}]
  /\ left \in budgets

Init == InitWith(Budgets)

\* --------------------------------------------------------- life loss
\* handleGameOver asking for a comment on the high score instead of the score
handleGameOver_HighScore(currentScore, reason) ==
  [status |-> "GAME_OVER",
   gameOverReason |-> reason,
   localStorage |-> IF currentScore > highScore THEN currentScore ELSE localStorage,
   loadingAi |-> TRUE,
   request |-> [round |-> round, score |-> highScore, reason |-> reason]]

\* handleGameOver up to its await: the values it sets and the request it
\* sends.  highScore is the closure's.  The round in the request is history:
\* the code sends (score, reason) only.
handleGameOver(currentScore, reason) ==
  [status |-> "GAME_OVER",
   gameOverReason |-> reason,
   localStorage |-> IF currentScore > highScore THEN currentScore ELSE localStorage,
   loadingAi |-> TRUE,
   request |-> [round |-> round, score |-> currentScore, reason |-> reason]]

isUnderSpawn(prevFood) == OnSnake(prevFood, INITIAL_SNAKE)

\* the setFood updater without the isUnderSpawn test
FoodAfterLifeLost_Keep(prevFood, newFood) == prevFood

\* the updater handleLifeLost gives setFood; newFood is what generateFood
\* returned
FoodAfterLifeLost(prevFood, newFood) ==
  IF isUnderSpawn(prevFood) THEN newFood ELSE prevFood

\* handleLifeLost with lives > 1, without setLives(l => l - 1)
LifeLostReset_KeepLives(prevLives, prevFood, newFood) ==
  [lives |-> prevLives,
   combo |-> 0,
   snake |-> INITIAL_SNAKE,
   direction |-> INITIAL_DIRECTION,
   nextDirection |-> INITIAL_DIRECTION,
   activePowerUp |-> NoActivePowerUp,
   food |-> FoodAfterLifeLost(prevFood, newFood)]

\* handleLifeLost with lives > 1: the values it sets
LifeLostReset(prevLives, prevFood, newFood) ==
  [lives |-> prevLives - 1,
   combo |-> 0,
   snake |-> INITIAL_SNAKE,
   direction |-> INITIAL_DIRECTION,
   nextDirection |-> INITIAL_DIRECTION,
   activePowerUp |-> NoActivePowerUp,
   food |-> FoodAfterLifeLost(prevFood, newFood)]


\* ------------------------------------------------------------ moveSnake
\* The self check with its guard, on the closure's activePowerUp.
SelfCollision(ap, newHead, prevSnake) ==
  ~GhostActive(ap) /\ HitsSelf(newHead, prevSnake)

\* GrowOrPop with the tail popped in every tick
GrowOrPop_AlwaysPop(newHead, prevSnake, ateFood) ==
  Front(<< newHead >> \o prevSnake)

\* [newHead, ...prevSnake], and the tail popped unless the food was eaten
GrowOrPop(newHead, prevSnake, ateFood) ==
  IF ateFood THEN << newHead >> \o prevSnake ELSE Front(<< newHead >> \o prevSnake)

\* the score the food check adds; closureCombo is the combo of the render
\* that created the callback
FoodPoints(closureCombo) ==
  LET effectiveCombo == closureCombo + 1
      currentMultiplier == Multiplier(effectiveCombo)
  IN POINTS_PER_FOOD * currentMultiplier

\* index of the power-up under newHead, 0 if none (findIndex)
HitPowerUpIndex(newHead, currentPowerUps) ==
  IF \E i \in 1..Len(currentPowerUps) : SameCell(currentPowerUps[i], newHead)
    THEN CHOOSE i \in 1..Len(currentPowerUps) :
           /\ SameCell(currentPowerUps[i], newHead)
           /\ \A j \in 1..(i - 1) : ~SameCell(currentPowerUps[j], newHead)
    ELSE 0

\* the combo check never resetting the counter
ComboAfterExpiry_Never(currentCombo, expiresAt, t) == currentCombo

\* the combo check at the top of moveSnake: the value the queue of combo
\* holds after it
ComboAfterExpiry(currentCombo, expiresAt, t) ==
  IF currentCombo > 0 /\ t > expiresAt THEN 0 ELSE currentCombo

\* the timer callback without its status guard: the snake moves on
TickIdle_Moves ==
  /\ status # "PLAYING"
  /\ snake' = GrowOrPop(MoveHead(snake[1], nextDirection), snake, FALSE)
  /\ direction' = nextDirection
  /\ ev' = NoEv("tick")
  /\ UNCHANGED << food, powerUps, activePowerUp, nextDirection, score,
                  highScore, lives, status, gameOverReason, aiComment,
                  loadingAi, combo, comboExpiresAt, gameLoopRef,
                  savedComboTimeRef, localStorage, requests, now, round,
                  hist, left >>

\* The timer callback while the status is not PLAYING: it returns at once.
TickIdle ==
  /\ status # "PLAYING"
  /\ ev' = NoEv("tick")
  /\ UNCHANGED << gameVars, now, round, hist, left >>

\* the updater of the spawn without its tests
SpawnUpdate_Append(prev, newItem) == Append(prev, newItem)

\* the updater the spawn gives setPowerUps; newItem is what generatePowerUp
\* returned
SpawnUpdate(prev, newItem) ==
  IF Len(prev) >= 1 THEN prev
  ELSE IF newItem # NoPowerUp THEN Append(prev, newItem) ELSE prev

\* The timer callback while PLAYING, with what the random source produced:
\* roll  - Math.random() < POWERUP_SPAWN_CHANCE
\* run   - the sampling loop of generatePowerUp (attempts, last sample)
\* type  - the power-up type drawn
\* newFood - the cell generateFood returned, where it was called
MoveSnake(roll, run, type, newFood) ==
  LET \* --- read from the closure
      powerUpExpired == activePowerUp # NoActivePowerUp /\ now > activePowerUp.expiresAt
      head == snake[1]
      currentDir == nextDirection
      moved == MoveHead(head, currentDir)
      outside == OutOfBounds(moved)
      wrapped == outside /\ GhostActive(activePowerUp)
      newHead == IF wrapped THEN Wrap(moved) ELSE moved
      lost == IF outside /\ ~wrapped THEN "WALL"
              ELSE IF SelfCollision(activePowerUp, newHead, snake) THEN "SELF"
              ELSE "null"
      lostLife == lost # "null"
      reset == lostLife /\ lives > 1
      over == lostLife /\ ~(lives > 1)
      ate == ~lostLife /\ SameCell(newHead, food)
      hitPowerUpIndex == IF lostLife THEN 0 ELSE HitPowerUpIndex(newHead, powerUps)
      picked == hitPowerUpIndex # 0
      \* --- handleLifeLost
      lifeLost == LifeLostReset(lives, food, newFood)
      gameOver == handleGameOver(score, lost)
      \* --- the queues, applied in call order
      ap1 == IF powerUpExpired THEN NoActivePowerUp ELSE activePowerUp
      ap2 == IF picked
               THEN [type |-> powerUps[hitPowerUpIndex].type,
                     expiresAt |-> now + POWERUP_DURATION]
               ELSE ap1
      combo1 == ComboAfterExpiry(combo, comboExpiresAt, now)
      combo2 == IF ate THEN combo1 + 1 ELSE combo1
      newScore == IF ate THEN score + FoodPoints(combo) ELSE score
      \* setPowerUps(prev => ...) of the spawn is queued by the callback
      \* itself, while the setPowerUps of the pick-up is called from inside
      \* the setSnake updater, which runs at the next render: the spawn
      \* updater comes first in the queue.
      newItem == generatePowerUp(powerUps, run.attempts, run.newLoc, type)
      pu1 == IF roll THEN SpawnUpdate(powerUps, newItem) ELSE powerUps
      pu2 == IF picked THEN RemoveAt(powerUps, hitPowerUpIndex) ELSE pu1
      stored1 == IF over THEN gameOver.localStorage ELSE localStorage
      newStatus == IF over THEN gameOver.status ELSE status
      hs == HighScoreEffect(newScore, highScore, stored1)
  IN
  /\ status = "PLAYING"
  /\ snake' = IF reset THEN lifeLost.snake
              ELSE IF over THEN snake
              ELSE GrowOrPop(newHead, snake, ate)
  /\ direction' = IF reset THEN lifeLost.direction ELSE nextDirection
  /\ nextDirection' = IF reset THEN lifeLost.nextDirection ELSE nextDirection
  /\ activePowerUp' = IF reset THEN lifeLost.activePowerUp ELSE ap2
  /\ combo' = IF reset THEN lifeLost.combo ELSE combo2
  /\ lives' = IF reset THEN lifeLost.lives ELSE IF over THEN 0 ELSE lives
  /\ food' = IF reset THEN lifeLost.food ELSE IF ate THEN newFood ELSE food
  /\ score' = newScore
  /\ comboExpiresAt' = IF ate THEN now + COMBO_TIMEOUT_MS ELSE comboExpiresAt
  /\ powerUps' = pu2
  /\ status' = newStatus
  /\ gameOverReason' = IF over THEN gameOver.gameOverReason ELSE gameOverReason
  /\ loadingAi' = IF over THEN gameOver.loadingAi ELSE loadingAi
  /\ requests' = IF over THEN requests \cup {gameOver.request} ELSE requests
  /\ highScore' = hs.highScore
  /\ localStorage' = hs.localStorage
  /\ gameLoopRef' = GameLoopEffect(newStatus, gameLoopRef)
  /\ ev' = [op |-> "tick", playing |-> TRUE, dir |-> currentDir,
            newHead |-> newHead, outside |-> outside, wrapped |-> wrapped,
            lost |-> lost, lastLife |-> over, ate |-> ate, picked |-> picked,
            roll |-> roll, attempts |-> run.attempts, newLoc |-> run.newLoc,
            key |-> "null", accepted |-> hist.accepted,
            rejected |-> hist.rejected,
            underSpawn |-> lostLife /\ isUnderSpawn(food)]
  /\ hist' = [NoKeys(hist) EXCEPT
                !.maxScore = IF newScore > @ THEN newScore ELSE @]
  /\ left' = [left EXCEPT !.eats = IF ate THEN @ - 1 ELSE @,
                          !.spawns = IF roll /\ Len(powerUps) = 0 THEN @ - 1 ELSE @,
                          !.ticks = IF left.limited THEN @ - 1 ELSE @]
  /\ UNCHANGED << aiComment, savedComboTimeRef, now, round >>

NoRun == [attempts |-> 0, newLoc |-> NoCell]

\* What the random source can produce in a tick from the current state.
TickPlaying ==
  LET moved == MoveHead(snake[1], nextDirection)
      wrapped == OutOfBounds(moved) /\ GhostActive(activePowerUp)
      newHead == IF wrapped THEN Wrap(moved) ELSE moved
      lostLife == (OutOfBounds(moved) /\ ~wrapped)
                  \/ SelfCollision(activePowerUp, newHead, snake)
      ate == ~lostLife /\ SameCell(newHead, food)
      regen == lostLife /\ lives > 1 /\ isUnderSpawn(food)
      foods == IF ate THEN generateFood(<< newHead >> \o snake, powerUps)
               ELSE IF regen THEN generateFood(INITIAL_SNAKE, << >>)
               ELSE {food}
      rolls == IF left.spawns > 0 \/ Len(powerUps) >= 1 THEN BOOLEAN ELSE {FALSE}
  IN
  /\ status = "PLAYING"
  /\ left.limited => left.ticks > 0
  /\ ate => left.eats > 0
  /\ \E roll \in rolls :
       \E run \in (IF roll /\ Len(powerUps) = 0
                     THEN LoopRuns(snake, food, powerUps) ELSE {NoRun}) :
         \E type \in (IF roll /\ Len(powerUps) = 0 /\ run.attempts < MAX_ATTEMPTS
                        THEN PowerUpType ELSE {"null"}) :
           \E newFood \in foods :
             MoveSnake(roll, run, type, newFood)


\* -------------------------------------------------------------- commands
\* resetGame without setLives(MAX_LIVES)
resetGame_KeepLives ==
  /\ status \in {"IDLE", "GAME_OVER"}
  /\ left.rounds > 0
  /\ \E newFood \in generateFood(INITIAL_SNAKE, << >>) :
       /\ snake' = INITIAL_SNAKE
       /\ direction' = INITIAL_DIRECTION
       /\ nextDirection' = INITIAL_DIRECTION
       /\ score' = 0
       /\ lives' = lives
       /\ powerUps' = << >>
       /\ activePowerUp' = NoActivePowerUp
       /\ combo' = 0
       /\ comboExpiresAt' = 0
       /\ status' = "PLAYING"
       /\ gameOverReason' = "null"
       /\ aiComment' = NoComment
       /\ food' = newFood
  /\ highScore' = HighScoreEffect(0, highScore, localStorage).highScore
  /\ localStorage' = HighScoreEffect(0, highScore, localStorage).localStorage
  /\ gameLoopRef' = GameLoopEffect("PLAYING", gameLoopRef)
  /\ round' = round + 1
  /\ left' = Spend("rounds")
  /\ ev' = NoEv("start")
  /\ hist' = NoKeys(hist)
  /\ UNCHANGED << loadingAi, savedComboTimeRef, requests, now >>

\* resetGame: the START / restart button and Space in IDLE or GAME_OVER.
resetGame ==
  /\ status \in {"IDLE", "GAME_OVER"}
  /\ left.rounds > 0
  /\ \E newFood \in generateFood(INITIAL_SNAKE, << >>) :
       /\ snake' = INITIAL_SNAKE
       /\ direction' = INITIAL_DIRECTION
       /\ nextDirection' = INITIAL_DIRECTION
       /\ score' = 0
       /\ lives' = MAX_LIVES
       /\ powerUps' = << >>
       /\ activePowerUp' = NoActivePowerUp
       /\ combo' = 0
       /\ comboExpiresAt' = 0
       /\ status' = "PLAYING"
       /\ gameOverReason' = "null"
       /\ aiComment' = NoComment
       /\ food' = newFood
  /\ highScore' = HighScoreEffect(0, highScore, localStorage).highScore
  /\ localStorage' = HighScoreEffect(0, highScore, localStorage).localStorage
  /\ gameLoopRef' = GameLoopEffect("PLAYING", gameLoopRef)
  /\ round' = round + 1
  /\ left' = Spend("rounds")
  /\ ev' = NoEv("start")
  /\ hist' = NoKeys(hist)
  /\ UNCHANGED << loadingAi, savedComboTimeRef, requests, now >>

\* handleExit: the exit button of the overlay (PAUSED or GAME_OVER).
handleExit ==
  /\ status \in {"PAUSED", "GAME_OVER"}
  /\ gameLoopRef' = GameLoopEffect("IDLE", gameLoopRef)
  /\ status' = "IDLE"
  /\ score' = 0
  /\ lives' = MAX_LIVES
  /\ powerUps' = << >>
  /\ activePowerUp' = NoActivePowerUp
  /\ combo' = 0
  /\ highScore' = HighScoreEffect(0, highScore, localStorage).highScore
  /\ localStorage' = HighScoreEffect(0, highScore, localStorage).localStorage
  /\ ev' = NoEv("exit")
  /\ UNCHANGED << snake, food, direction, nextDirection, gameOverReason,
                  aiComment, loadingAi, comboExpiresAt, savedComboTimeRef,
                  requests, now, round, hist, left >>

\* handlePause storing no remaining combo time
SavedComboTime_Zero(currentCombo, expiresAt, t) == 0

\* what handlePause stores in savedComboTimeRef
SavedComboTime(currentCombo, expiresAt, t) ==
  IF currentCombo > 0
    THEN (IF expiresAt - t > 0 THEN expiresAt - t ELSE 0)
    ELSE 0

\* handlePause as the function is written: it tests no status.
handlePauseCall ==
  /\ left.pauses > 0
  /\ left' = Spend("pauses")
  /\ savedComboTimeRef' = SavedComboTime(combo, comboExpiresAt, now)
  /\ status' = "PAUSED"
  /\ gameLoopRef' = GameLoopEffect("PAUSED", gameLoopRef)
  /\ ev' = NoEv("pause")
  /\ hist' = [hist EXCEPT !.pausedCombo = combo,
                          !.remaining = comboExpiresAt - now]
  /\ UNCHANGED << snake, food, powerUps, activePowerUp, direction,
                  nextDirection, score, highScore, lives, gameOverReason,
                  aiComment, loadingAi, combo, comboExpiresAt, localStorage,
                  requests, now, round >>

\* handlePause from where the code calls it: the pause button, shown while
\* PLAYING, and Space and Escape while PLAYING.
handlePause ==
  /\ status = "PLAYING"
  /\ handlePauseCall

\* handleResume as the function is written: it tests no status.
handleResumeCall ==
  /\ comboExpiresAt' =
       IF savedComboTimeRef > 0 THEN now + savedComboTimeRef ELSE comboExpiresAt
  /\ status' = "PLAYING"
  /\ gameLoopRef' = GameLoopEffect("PLAYING", gameLoopRef)
  /\ ev' = NoEv("resume")
  /\ UNCHANGED << snake, food, powerUps, activePowerUp, direction,
                  nextDirection, score, highScore, lives, gameOverReason,
                  aiComment, loadingAi, combo, savedComboTimeRef,
                  localStorage, requests, now, round, hist, left >>

\* handleResume from where the code calls it: Space while PAUSED, and the
\* resume button of the overlay.
handleResume ==
  /\ status = "PAUSED"
  /\ handleResumeCall

\* the updater of updateDirection without the isOpposite test
DirectionUpdate_AcceptAll(newDir, currentDir, pendingDir) ==
  [direction |-> currentDir, nextDirection |-> newDir]

\* the updater updateDirection gives setDirection: the value it returns and
\* the value nextDirection has afterwards
DirectionUpdate(newDir, currentDir, pendingDir) ==
  IF ~isOpposite(newDir, currentDir)
    THEN [direction |-> currentDir, nextDirection |-> newDir]
    ELSE [direction |-> currentDir, nextDirection |-> pendingDir]

\* updateDirection(newDir): keys, swipes, taps and the on-screen buttons.
updateDirection(newDir) ==
  /\ left.keys > 0
  /\ left.held => activePowerUp # NoActivePowerUp
  /\ direction' = DirectionUpdate(newDir, direction, nextDirection).direction
  /\ nextDirection' = DirectionUpdate(newDir, direction, nextDirection).nextDirection
  /\ ev' = [NoEv("setDirection") EXCEPT !.key = newDir]
  /\ hist' = IF newDir = Reverse(direction)
               THEN [hist EXCEPT !.rejected = TRUE]
               ELSE [hist EXCEPT !.accepted = newDir, !.rejected = FALSE]
  /\ left' = Spend("keys")
  /\ UNCHANGED << snake, food, powerUps, activePowerUp, score, highScore,
                  lives, status, gameOverReason, aiComment, loadingAi, combo,
                  comboExpiresAt, gameLoopRef, savedComboTimeRef,
                  localStorage, requests, now, round >>

\* ------------------------------------------------------------ commentary
\* The answer of generateGameOverMessage to request r reaches the
\* continuation of handleGameOver.  The comment is a function of the request.
CommentOf(r) == [round |-> r.round, score |-> r.score, reason |-> r.reason]

CommentArrives ==
  \E r \in requests :
    /\ aiComment' = CommentOf(r)
    /\ loadingAi' = FALSE
    /\ requests' = requests \ {r}
    /\ ev' = NoEv("comment")
    /\ hist' = [hist EXCEPT !.answered = @ \cup {r.round}]
    /\ UNCHANGED << snake, food, powerUps, activePowerUp, direction,
                    nextDirection, score, highScore, lives, status,
                    gameOverReason, combo, comboExpiresAt, gameLoopRef,
                    savedComboTimeRef, localStorage, now, round, left >>

\* The request r fails: the await of handleGameOver throws and the rest of
\* the function does not run.
CommentFails ==
  \E r \in requests :
    /\ requests' = requests \ {r}
    /\ ev' = NoEv("commentFailed")
    /\ UNCHANGED << snake, food, powerUps, activePowerUp, direction,
                    nextDirection, score, highScore, lives, status,
                    gameOverReason, aiComment, loadingAi, combo,
                    comboExpiresAt, gameLoopRef, savedComboTimeRef,
                    localStorage, now, round, hist, left >>

\* ----------------------------------------------------------------- clock
\* Date.now() moves on.
ClockAdvance ==
  /\ left.clock > 0
  /\ left.held => activePowerUp # NoActivePowerUp
  /\ now' = now + TimeStep
  /\ left' = Spend("clock")
  /\ ev' = NoEv("clock")
  /\ UNCHANGED << gameVars, round, hist >>

Next ==
  \/ TickPlaying
  \/ TickIdle
  \/ resetGame
  \/ handleExit
  \/ handlePause
  \/ handleResume
  \/ \E newDir \in Direction : updateDirection(newDir)
  \/ CommentArrives
  \/ CommentFails
  \/ ClockAdvance

Spec == Init /\ [][Next]_vars

\* The runs that turn with a power-up on the board and the clock moving.
InitTurn == InitWith(TurnBudgets)

NextTurn ==
  \/ TickPlaying
  \/ TickIdle
  \/ resetGame
  \/ \E newDir \in Direction : updateDirection(newDir)
  \/ ClockAdvance

SpecTurn == InitTurn /\ [][NextTurn]_vars

\* The runs that grow on the way up, pick a power-up up and then turn.
InitGhost == InitWith(GhostBudgets)

SpecGhost == InitGhost /\ [][NextTurn]_vars


\* The runs that turn before, during and after a pause.
InitKeys == InitWith(KeyBudgets)

NextKeys ==
  \/ TickPlaying
  \/ TickIdle
  \/ resetGame
  \/ handlePause
  \/ handleResume
  \/ \E newDir \in Direction : updateDirection(newDir)

SpecKeys == InitKeys /\ [][NextKeys]_vars

\* The runs in which handlePause and handleResume are invoked in any status,
\* as functions that test no status themselves.
CallBudgets ==
  { [keys |-> 0, ticks |-> MaxTurnTicks, limited |-> TRUE, held |-> FALSE, eats |-> MaxTurnEats,
     spawns |-> 0, clock |-> MaxClock, pauses |-> MaxPauses, rounds |-> 1,
     cells |-> MaxFewCells, pool |-> "straight"] }

InitCalls == InitWith(CallBudgets)

NextCalls ==
  \/ TickPlaying
  \/ TickIdle
  \/ resetGame
  \/ handleExit
  \/ handlePauseCall
  \/ handleResumeCall
  \/ ClockAdvance

SpecCalls == InitCalls /\ [][NextCalls]_vars


\* =====================================================================
\* Properties
\* =====================================================================
PlayingTick == ev.op = "tick" /\ ev.playing

\* the cell one step from c in direction d, on the torus of the grid
StepCell(c, d) ==
  LET dx == IF d = "LEFT" THEN -1 ELSE IF d = "RIGHT" THEN 1 ELSE 0
      dy == IF d = "UP" THEN -1 ELSE IF d = "DOWN" THEN 1 ELSE 0
  IN Cell((c.x + dx + GRID_SIZE) % GRID_SIZE, (c.y + dy + GRID_SIZE) % GRID_SIZE)

\* the step was a tick while PLAYING
IsPlayingTick == ev'.op = "tick" /\ ev'.playing

\* C1: in every tick in which the head lands on the food, the score grows by
\* exactly POINTS_PER_FOOD * (1 + floor(c / 5)), c being the combo counter
\* after the tick's increment, whatever the combo was before (also when the
\* tick's expiry sweep reset it).
C1_ScoreByComboAfterIncrement ==
  [][ (IsPlayingTick /\ ev'.ate)
        => score' = score + POINTS_PER_FOOD * (1 + (combo' \div 5)) ]_vars

\* C2: in a PLAYING tick with now > activePowerUp.expiresAt the wall check
\* and the self check see no active power-up: a head that leaves the grid
\* is not wrapped and loses a life to the wall, a head on a segment of the
\* snake loses a life to the snake.
C2_ExpirySweepBeforeChecks ==
  [][ (IsPlayingTick /\ activePowerUp # NoActivePowerUp
         /\ now > activePowerUp.expiresAt)
        => /\ ~ev'.wrapped
           /\ ev'.outside => ev'.lost = "WALL"
           /\ (~ev'.outside /\ OnSnake(ev'.newHead, snake)) => ev'.lost = "SELF" ]_vars

\* GHOST is in force in the current state: held and not expired
GhostInForce ==
  activePowerUp.type = "GHOST" /\ ~(now > activePowerUp.expiresAt)

\* C3: in a PLAYING tick whose new head is outside the grid, with GHOST
\* active the head is wrapped to the opposite edge and no life is lost;
\* with GHOST not active life-loss(WALL) is invoked and the snake does not
\* advance.
C3_WallWrapOnlyWithGhost ==
  [][ (IsPlayingTick /\ OutOfBounds(MoveHead(snake[1], nextDirection)))
        => IF GhostInForce
             THEN /\ ev'.lost = "null"
                  /\ lives' = lives
                  /\ snake'[1] = StepCell(snake[1], nextDirection)
             ELSE /\ ev'.lost = "WALL"
                  /\ snake' \in {snake, INITIAL_SNAKE} ]_vars

\* C4: life-loss(SELF) is never invoked in a tick where GHOST is active;
\* with GHOST not active, a new head on any segment of the pre-move snake
\* (the tail cell included) invokes life-loss(SELF) and the snake does not
\* advance.
C4_SelfCollisionUnlessGhost ==
  [][ IsPlayingTick
        => /\ GhostInForce => ev'.lost # "SELF"
           /\ (~GhostInForce /\ ~OutOfBounds(MoveHead(snake[1], nextDirection))
                 /\ OnSnake(MoveHead(snake[1], nextDirection), snake))
                => /\ ev'.lost = "SELF"
                   /\ snake' \in {snake, INITIAL_SNAKE} ]_vars

\* C5: a PLAYING tick that loses no life leaves the snake one longer if the
\* new head is on the food cell and as long as before otherwise; no step
\* other than a life loss or a start makes the snake shorter.
C5_LengthGrowsByFood ==
  [][ /\ (IsPlayingTick /\ ev'.lost = "null")
          => Len(snake') = Len(snake) + (IF SameCell(snake'[1], food) THEN 1 ELSE 0)
      /\ (ev'.op # "start" /\ ~(IsPlayingTick /\ ev'.lost # "null"))
          => Len(snake') >= Len(snake) ]_vars

\* C5 witness: a tick ate for the second time within one life
C5_Witness ==
  PlayingTick /\ ev.ate /\ ev.lost = "null" /\ Len(snake) = 5 /\ lives = MAX_LIVES

\* C6: setDirection(d) never changes the current direction; a d that is the
\* reverse of the current direction leaves the pending direction alone, any
\* other d becomes the pending direction; the next PLAYING tick moves in the
\* last d accepted since the previous tick.
C6_SetDirection ==
  [][ /\ ev'.op = "setDirection"
          => /\ direction' = direction
             /\ nextDirection' = IF ev'.key = Reverse(direction)
                                   THEN nextDirection ELSE ev'.key
      /\ (IsPlayingTick /\ hist.accepted # "null")
          => /\ ev'.dir = hist.accepted
             /\ ev'.lost = "null"
                  => /\ direction' = hist.accepted
                     /\ snake'[1] = StepCell(snake[1], hist.accepted) ]_vars

\* C6 witness: heading UP from (10,10), RIGHT was accepted, a following DOWN
\* rejected, and the tick moved RIGHT
C6_Witness ==
  /\ PlayingTick /\ ev.accepted = "RIGHT" /\ ev.rejected /\ ev.dir = "RIGHT"
  /\ direction = "RIGHT" /\ snake[1] = Cell(11, 10) /\ snake[2] = Cell(10, 10)

\* C7: a life lost with lives = 1 sets lives to 0, the status to GAME_OVER
\* and gameOverReason to the reason, leaves no interval running, sends
\* exactly one commentary request, for (the score, the reason), and leaves
\* the score alone.
C7_LastLifeGameOver ==
  [][ (IsPlayingTick /\ ev'.lost # "null" /\ lives = 1)
        => /\ lives' = 0
           /\ status' = "GAME_OVER"
           /\ gameOverReason' = ev'.lost
           /\ gameLoopRef' = 0
           /\ requests \subseteq requests'
           /\ Cardinality(requests' \ requests) = 1
           /\ \A r \in requests' \ requests : r.score = score /\ r.reason = ev'.lost
           /\ score' = score ]_vars

\* C7 witness: the last life was lost to the wall with the high score above
\* the score
C7_Witness ==
  /\ PlayingTick /\ ev.lastLife /\ ev.lost = "WALL"
  /\ status = "GAME_OVER" /\ lives = 0 /\ highScore > score
  /\ \E r \in requests : r.round = round

\* C8: a life lost with lives > 1 takes one life, resets the combo, the
\* snake, both directions and the active power-up, keeps the status PLAYING
\* and the score; the food stays where it is unless it is on the reset
\* snake, and then it is moved to a cell off the reset snake.
C8_LifeLostReset ==
  [][ (IsPlayingTick /\ ev'.lost # "null" /\ lives > 1)
        => /\ lives' = lives - 1
           /\ combo' = 0
           /\ snake' = INITIAL_SNAKE
           /\ direction' = "UP" /\ nextDirection' = "UP"
           /\ activePowerUp' = NoActivePowerUp
           /\ status' = "PLAYING"
           /\ score' = score
           /\ IF OnSnake(food, INITIAL_SNAKE)
                THEN ~OnSnake(food', INITIAL_SNAKE)
                ELSE food' = food ]_vars

\* C8 witness: a life was lost with the food under the reset snake
C8_Witness ==
  /\ PlayingTick /\ ev.lost # "null" /\ ~ev.lastLife /\ ev.underSpawn
  /\ lives = MAX_LIVES - 1 /\ snake = INITIAL_SNAKE /\ score > 0

\* the value of the stored entry, 0 when there is none
StoredValue(stored) == IF stored = Absent THEN 0 ELSE stored

\* C9: highScore never decreases and is never below the score; the stored
\* entry is the highest score ever reached, or the entry stored before if
\* that is larger; start and exit set the score to 0.
C9_HighScoreMonotone ==
  /\ [](/\ highScore >= score
        /\ StoredValue(localStorage) =
             (IF hist.maxScore > StoredValue(hist.stored0)
                THEN hist.maxScore ELSE StoredValue(hist.stored0)))
  /\ [][ /\ highScore' >= highScore
         /\ ev'.op \in {"start", "exit"} => score' = 0 ]_vars

\* C9 witness: a tick took the score past the stored high score
C9_Witness ==
  /\ PlayingTick /\ ev.ate /\ hist.stored0 = 20
  /\ score = 30 /\ highScore = 30 /\ localStorage = 30

\* C10: an answer to a request of an earlier round changes no comment, and
\* the comment shown in GAME_OVER is the one this round asked for.
C10_StaleCommentDiscarded ==
  /\ []((status = "GAME_OVER" /\ aiComment # NoComment) => aiComment.round = round)
  /\ [][ (ev'.op = "comment" /\ \E r \in requests \ requests' : r.round < round)
           => aiComment' = aiComment ]_vars

\* C11: in every state a power-up on the board is on a cell that is neither
\* a cell of the snake nor the food cell.
C11_PowerUpCellFree ==
  \A i \in 1..Len(powerUps) :
    ~OnSnake(powerUps[i], snake) /\ ~SameCell(powerUps[i], food)

\* the cell is one of the GRID_SIZE x GRID_SIZE cells
InGrid(c) == c.x \in 0..(GRID_SIZE - 1) /\ c.y \in 0..(GRID_SIZE - 1)

\* C12: in every state the food cell is inside the grid and is no segment
\* of the snake.
C12_FoodOffSnake == InGrid(food) /\ ~OnSnake(food, snake)

\* C12 witness: a tick ate and the food was respawned, on a cell the snake
\* had left
C12_Witness ==
  /\ PlayingTick /\ ev.ate /\ food # INITIAL_FOOD
  /\ OnSnake(food, INITIAL_SNAKE) /\ ~OnSnake(food, snake)

\* C13: if pause happened with combo > 0 and r = comboExpiresAt - now > 0,
\* then resume at any later time q sets comboExpiresAt to q + r and leaves
\* the combo as it was at the pause; nothing that happens while PAUSED
\* changes the combo.
C13_ComboTimerPaused ==
  [][ /\ (ev'.op = "resume" /\ status = "PAUSED"
            /\ hist.pausedCombo > 0 /\ hist.remaining > 0)
          => /\ comboExpiresAt' = now + hist.remaining
             /\ combo' = hist.pausedCombo
             /\ ~(now > comboExpiresAt')
      /\ (status = "PAUSED" /\ ev'.op \notin {"exit", "resume"})
          => combo' = combo ]_vars

\* C13 witness: resumed 6000 ms after a pause that left 4000 ms of combo
C13_Witness ==
  /\ ev.op = "resume" /\ status = "PLAYING" /\ combo = 1
  /\ hist.remaining = COMBO_TIMEOUT_MS
  /\ now = StartTime + MaxClock * TimeStep
  /\ comboExpiresAt = now + COMBO_TIMEOUT_MS

\* C14: pause changes the state only when the status is PLAYING, to PAUSED,
\* and resume only when it is PAUSED, to PLAYING; invoked in any other
\* status each of them leaves the status and every other state variable
\* unchanged.
C14_PauseResumeOnlyWhenValid ==
  [][ /\ ev'.op = "pause"
          => IF status = "PLAYING" THEN status' = "PAUSED" ELSE UNCHANGED gameVars
      /\ ev'.op = "resume"
          => IF status = "PAUSED" THEN status' = "PLAYING" ELSE UNCHANGED gameVars ]_vars

\* C15: a tick while the status is IDLE, PAUSED or GAME_OVER leaves every
\* state variable unchanged.
C15_TickNoOpUnlessPlaying ==
  [][ (ev'.op = "tick" /\ status # "PLAYING") => UNCHANGED gameVars ]_vars

\* C15 witness: a tick ran while PAUSED with a combo and a grown snake
C15_Witness ==
  /\ ev.op = "tick" /\ ~ev.playing /\ status = "PAUSED"
  /\ combo > 0 /\ Len(snake) > Len(INITIAL_SNAKE)

\* C16: start from IDLE or GAME_OVER gives the status PLAYING, the initial
\* snake, both directions UP, score 0, MAX_LIVES lives, combo 0, an empty
\* board of power-ups, no active power-up, no gameOverReason, and a food
\* cell off the snake, whatever the previous round left.
C16_StartResets ==
  [][ ev'.op = "start"
        => /\ status \in {"IDLE", "GAME_OVER"}
           /\ status' = "PLAYING"
           /\ snake' = << Cell(10, 10), Cell(10, 11), Cell(10, 12) >>
           /\ direction' = "UP" /\ nextDirection' = "UP"
           /\ score' = 0
           /\ lives' = MAX_LIVES
           /\ combo' = 0
           /\ powerUps' = << >>
           /\ activePowerUp' = NoActivePowerUp
           /\ gameOverReason' = "null"
           /\ ~OnSnake(food', snake') ]_vars

\* C16 witness: a second round was started from GAME_OVER
C16_Witness ==
  /\ ev.op = "start" /\ round = 2 /\ status = "PLAYING"
  /\ lives = MAX_LIVES /\ gameOverReason = "null"

\* C17: in every state there is at most one power-up on the board, and a
\* spawn attempt made while one is present leaves the board as it is (the
\* pick-up of that tick apart).
C17_AtMostOnePowerUp ==
  /\ [](Len(powerUps) <= 1)
  /\ [][ (IsPlayingTick /\ ev'.roll /\ Len(powerUps) >= 1)
           => powerUps' = IF ev'.picked THEN << >> ELSE powerUps ]_vars

\* C17 witness: the spawn roll came up with a power-up on the board
C17_Witness ==
  /\ PlayingTick /\ ev.roll /\ ev.attempts = 0 /\ ~ev.picked
  /\ Len(powerUps) = 1

\* C18: a spawn attempt on an empty board samples at most 20 cells; if the
\* cell it stops at (the first free one among those sampled, be it the
\* 20th) is free, a power-up is placed on it; if all 20 are occupied the
\* board is left unchanged.
C18_SpawnGivesUpAfter20 ==
  [][ (IsPlayingTick /\ ev'.roll /\ Len(powerUps) = 0)
        => /\ ev'.attempts <= 20
           /\ IF Rejected(ev'.newLoc, snake, food, powerUps)
                THEN powerUps' = powerUps
                ELSE /\ Len(powerUps') = 1
                     /\ SameCell(powerUps'[1], ev'.newLoc)
                     /\ powerUps'[1].type \in PowerUpType ]_vars

\* C19: in GAME_OVER, while the round's commentary request is pending and
\* after it has failed, the comment is absent and start and exit are
\* enabled; a failing request changes neither the status nor the comment,
\* and exit from GAME_OVER leads to IDLE with the score 0.
C19_NoWaitOnCommentary ==
  /\ []((status = "GAME_OVER" /\ round \notin hist.answered)
          => /\ aiComment = NoComment
             /\ ENABLED handleExit
             /\ left.rounds > 0 => ENABLED resetGame)
  /\ [][ /\ ev'.op = "commentFailed"
             => (status' = status /\ aiComment' = aiComment)
         /\ (ev'.op = "exit" /\ status = "GAME_OVER")
             => (status' = "IDLE" /\ score' = 0) ]_vars

\* no two segments of the snake on the same cell
NoDuplicateCells(s) ==
  \A i, j \in 1..Len(s) : i # j => ~SameCell(s[i], s[j])

\* C20: the snake has at least one segment, and in every state in which no
\* GHOST is held no two segments are on the same cell (GHOST counted as
\* active for as long as it is held, swept or not).
C20_NoDuplicateCellsUnlessGhost ==
  /\ Len(snake) >= 1
  /\ activePowerUp.type # "GHOST" => NoDuplicateCells(snake)

\* C21: a PLAYING tick that loses a life to the wall or to the snake eats no
\* food, picks no power-up up and spawns none: the score, comboExpiresAt and
\* the power-ups on the board are as before the tick, and the food is as
\* life-loss leaves it.
C21_LifeLossAbortsTick ==
  [][ (IsPlayingTick /\ ev'.lost # "null")
        => /\ ~ev'.ate /\ ~ev'.picked
           /\ score' = score
           /\ comboExpiresAt' = comboExpiresAt
           /\ food' # food => (lives > 1 /\ OnSnake(food, INITIAL_SNAKE))
           /\ powerUps' = powerUps ]_vars

\* C22: a PLAYING tick with combo > 0 and now > comboExpiresAt counts from 0,
\* so that it leaves combo = 1 if it eats and 0 if not; a tick with
\* now <= comboExpiresAt that loses no life leaves the combo as it was, or
\* one higher if it eats; a tick that eats sets comboExpiresAt to
\* now + COMBO_TIMEOUT_MS, and one that does not leaves it alone.
C22_ComboExpiryAtTopOfTick ==
  [][ IsPlayingTick
        => /\ (combo > 0 /\ now > comboExpiresAt)
                => combo' = IF ev'.ate THEN 1 ELSE 0
           /\ (~(now > comboExpiresAt) /\ ev'.lost = "null")
                => combo' = combo + (IF ev'.ate THEN 1 ELSE 0)
           /\ ev'.ate => (combo' >= 1 /\ comboExpiresAt' = now + COMBO_TIMEOUT_MS)
           /\ ~ev'.ate => comboExpiresAt' = comboExpiresAt ]_vars

\* C22 witness: the second food of a life was eaten after the combo of the
\* first had run out, and the combo is 1
C22_Witness ==
  /\ PlayingTick /\ ev.ate /\ combo = 1 /\ score >= 2 * POINTS_PER_FOOD
  /\ lives = MAX_LIVES /\ round = 1 /\ left.pauses = 0
  /\ now > StartTime + COMBO_TIMEOUT_MS
  /\ comboExpiresAt = now + COMBO_TIMEOUT_MS

\* C23: in every state at most one interval is live, and none is while the
\* status is IDLE, PAUSED or GAME_OVER: every render that changes the
\* status, the callback or the period clears the interval of the render
\* before, and creates one only if the status is PLAYING.
C23_AtMostOneTimer ==
  /\ gameLoopRef \in {0, 1}
  /\ status \in {"IDLE", "PAUSED", "GAME_OVER"} => gameLoopRef = 0

\* C23 witness: a tick while PLAYING again after a pause that followed a
\* food, with one interval live
C23_Witness ==
  /\ PlayingTick /\ status = "PLAYING" /\ gameLoopRef = 1
  /\ hist.pausedCombo > 0 /\ left.pauses = 0 /\ Len(snake) = 4

\* C24: in every state nextDirection is not the reverse of direction, and the
\* direction a PLAYING tick applies is not the reverse of the direction the
\* state before it holds (the one the previous tick of the life applied),
\* whatever calls of updateDirection came before, paused or not.
C24_PendingNeverReverse ==
  /\ [](nextDirection # Reverse(direction))
  /\ [][ IsPlayingTick => ev'.dir # Reverse(direction) ]_vars

\* C24 witness: while PAUSED after some ticks, with a turn pending, the
\* reverse of the current direction was pressed and rejected
C24_Witness ==
  /\ ev.op = "setDirection" /\ status = "PAUSED"
  /\ ev.key = Reverse(direction) /\ hist.rejected
  /\ nextDirection \notin {direction, Reverse(direction)}
  /\ direction # INITIAL_DIRECTION

\* C25: in every state lives is in 0..MAX_LIVES; PLAYING and PAUSED come
\* with lives >= 1 and no gameOverReason, GAME_OVER with lives = 0 and the
\* reason WALL or SELF; a tick that loses a life takes exactly one life, no
\* other step but start and exit changes lives, start gives MAX_LIVES, and
\* GAME_OVER is entered only by the tick that loses the last life.
C25_LivesAndStatus ==
  /\ [](/\ lives \in 0..MAX_LIVES
        /\ status \in {"PLAYING", "PAUSED"}
             => (lives >= 1 /\ gameOverReason = "null")
        /\ status = "GAME_OVER"
             => (lives = 0 /\ gameOverReason \in {"WALL", "SELF"}))
  /\ [][ /\ (IsPlayingTick /\ ev'.lost # "null") => lives' = lives - 1
         /\ (IsPlayingTick /\ ev'.lost = "null") => lives' = lives
         /\ ev'.op \notin {"tick", "start", "exit"} => lives' = lives
         /\ ev'.op = "start" => lives' = MAX_LIVES
         /\ (status # "GAME_OVER" /\ status' = "GAME_OVER")
              => (IsPlayingTick /\ ev'.lost # "null" /\ lives = 1) ]_vars

\* C25 witness: the third life of the second round was lost, to GAME_OVER
C25_Witness ==
  /\ PlayingTick /\ ev.lastLife /\ round = 2
  /\ status = "GAME_OVER" /\ lives = 0 /\ gameOverReason = ev.lost

\* C26: in every state every segment of the snake is one of the
\* GRID_SIZE x GRID_SIZE cells, after a GHOST wrap and after a life lost too.
C26_SnakeInGrid ==
  \A i \in 1..Len(snake) : InGrid(snake[i])

\* C26 witness: with GHOST held the head left the grid at the top and was
\* wrapped to the bottom row
C26_Witness ==
  /\ PlayingTick /\ ev.outside /\ ev.wrapped /\ ev.lost = "null"
  /\ snake[1] = Cell(10, GRID_SIZE - 1) /\ snake[2] = Cell(10, 0)

====
